---------------------------- MODULE Spec2Model ----------------------------
(***************************************************************************)
(* Model of the expression simplifier in src/src/simplifier/mod.rs.        *)
(*                                                                         *)
(* An expression (Ast) is a record with the same four fields for every     *)
(* variant, so that structural equality is plain equality of records:      *)
(*   tag  : "Num", "Var", "Fac" (the unary operator), "Add", "Mul", "Pow"  *)
(*          (the n-ary operators), "None" (Option::None of                 *)
(*          term_factor_coeff) or "Panic" (the call aborted)               *)
(*   num  : the value of a Num                                             *)
(*   name : the name of a Var, or the message of a Panic                   *)
(*   kids : the operand(s) of an operator node, in order                   *)
(***************************************************************************)
EXTENDS Integers, Sequences, FiniteSets

VARIABLES
    overflow_checks,  \* build profile: TRUE when integer overflow panics
    input,            \* the tree handed to the entry point or to the pass
    looking_for,      \* second argument of term_factor_coeff
    stack,            \* the activations of run_once, the innermost last
    pc,               \* "running", "done", "panicked", or the pass called alone
    ast,              \* the value returned, or the panic
    pass,             \* 1 during the first sweep, 2 during the second
    first             \* result of the first sweep

vars == <<overflow_checks, input, looking_for, stack, pc, ast, pass, first>>

-----------------------------------------------------------------------------
(* Data model: crate::ast::Ast and its constructors.                       *)

Num(n) == [tag |-> "Num", num |-> n, name |-> "", kids |-> <<>>]
Var(s) == [tag |-> "Var", num |-> 0, name |-> s, kids |-> <<>>]
Unary(operand) == [tag |-> "Fac", num |-> 0, name |-> "", kids |-> <<operand>>]
Binary(operator, operands) ==
    [tag |-> operator, num |-> 0, name |-> "", kids |-> operands]
None == [tag |-> "None", num |-> 0, name |-> "", kids |-> <<>>]
Panic(msg) == [tag |-> "Panic", num |-> 0, name |-> msg, kids |-> <<>>]

BinaryOp == {"Add", "Mul", "Pow"}
IsBinary(a) == a.tag \in BinaryOp
IsNum(a) == a.tag = "Num"
IsPanic(a) == a.tag = "Panic"

\* Ast::structural_eq: same variant, same operator, same value or name, and
\* the operands equal element-wise in the same order.
StructuralEq(a, b) == a = b

\* From<Binary> for Ast (Binary::build, `.into()`): a Binary with exactly one
\* operand converts to that operand; any other Binary becomes Ast::Binary.
Into(operator, operands) ==
    IF Len(operands) = 1 THEN operands[1] ELSE Binary(operator, operands)


-----------------------------------------------------------------------------
(* Program constants.                                                      *)

DepthLimit == 32
FacLimit == 10

-----------------------------------------------------------------------------
(* de_paren: splice the operands of every operand that is a Binary with    *)
(* the same operator.                                                      *)

\* A flat_map whose guard forgets `if operator == b`: every Binary operand is
\* spliced.
RECURSIVE FlatMapAnyOperator(_, _)
FlatMapAnyOperator(operator, operands) ==
    IF operands = <<>> THEN <<>>
    ELSE LET h == Head(operands)
         IN  (IF IsBinary(h) THEN h.kids ELSE <<h>>)
                 \o FlatMapAnyOperator(operator, Tail(operands))

RECURSIVE FlatMap(_, _)
FlatMap(operator, operands) ==
    IF operands = <<>> THEN <<>>
    ELSE LET h == Head(operands)
         IN  (IF IsBinary(h) /\ h.tag = operator THEN h.kids ELSE <<h>>)
                 \o FlatMap(operator, Tail(operands))

DeParen(a) ==
    IF IsBinary(a) THEN Into(a.tag, FlatMap(a.tag, a.kids)) ELSE a

-----------------------------------------------------------------------------
(* term_factor_coeff                                                       *)

\* operands.iter().partition(..) with the captured flag `first`: yes holds the
\* operands the closure accepted, no the others, both in operand order.
\* A partition whose closure never clears `first`: every operand equal to lf
\* is accepted.
RECURSIVE PartitionEvery(_, _, _)
PartitionEvery(operands, lf, is_first) ==
    IF operands = <<>> THEN [yes |-> <<>>, no |-> <<>>]
    ELSE LET h == Head(operands)
             hit == is_first /\ StructuralEq(h, lf)
             rest == PartitionEvery(Tail(operands), lf, is_first)
         IN  IF hit THEN [yes |-> <<h>> \o rest.yes, no |-> rest.no]
             ELSE [yes |-> rest.yes, no |-> <<h>> \o rest.no]

RECURSIVE Partition(_, _, _)
Partition(operands, lf, is_first) ==
    IF operands = <<>> THEN [yes |-> <<>>, no |-> <<>>]
    ELSE LET h == Head(operands)
             hit == is_first /\ StructuralEq(h, lf)
             rest == Partition(Tail(operands), lf, is_first /\ ~hit)
         IN  IF hit THEN [yes |-> <<h>> \o rest.yes, no |-> rest.no]
             ELSE [yes |-> rest.yes, no |-> <<h>> \o rest.no]

TermFactorCoeff(term, lf) ==
    IF IsBinary(term)
    THEN LET p == Partition(term.kids, lf, TRUE)
         IN  IF Len(p.yes) = 1 THEN Into(term.tag, p.no)
             ELSE IF p.yes = <<>> THEN None
             ELSE Panic("unreachable")
    ELSE IF StructuralEq(term, lf) THEN Num(1) ELSE None

-----------------------------------------------------------------------------
(* unary_num_ops                                                           *)

\* (1..=n).product(): the empty product, 1, when n < 1.
RECURSIVE RangeProduct(_)
RangeProduct(n) == IF n < 1 THEN 1 ELSE n * RangeProduct(n - 1)

UnaryNumOps(a) ==
    IF a.tag = "Fac" /\ IsNum(a.kids[1]) /\ a.kids[1].num <= FacLimit
    THEN Num(RangeProduct(a.kids[1].num))
    ELSE a

-----------------------------------------------------------------------------
(* binary_num_ops.  Numbers are 64-bit signed integers.  The model's own   *)
(* integers are narrower, so a power is computed exactly only while it     *)
(* stays below 2^31; a power that overflows 64 bits panics when the build  *)
(* checks overflow and wraps otherwise.  Sums and products stay far from   *)
(* both limits for the trees explored.                                     *)

Abs(n) == IF n < 0 THEN 0 - n ELSE n

RECURSIVE IntPow(_, _)
IntPow(b, e) == IF e = 0 THEN 1 ELSE b * IntPow(b, e - 1)

\* m^e * acc stays below 2^31 (m >= 2).
RECURSIVE FitsModel(_, _, _)
FitsModel(m, e, acc) ==
    \/ e = 0
    \/ /\ acc <= 2147483647 \div m
       /\ FitsModel(m, e - 1, acc * m)

\* (*n).pow(result as u32) for n = base, result = exp: the exponent is the
\* low 32 bits of exp read as unsigned, so a negative exp is an exponent of
\* at least 2^31 with the parity of exp.
PowI64(base, exp, checks) ==
    CASE base = 0 -> [ok |-> TRUE, v |-> IF exp = 0 THEN 1 ELSE 0]
      [] base = 1 -> [ok |-> TRUE, v |-> 1]
      [] base = 0 - 1 -> [ok |-> TRUE, v |-> IF exp % 2 = 0 THEN 1 ELSE 0 - 1]
      [] Abs(base) >= 2 /\ exp >= 0 /\ FitsModel(Abs(base), exp, 1) ->
            [ok |-> TRUE, v |-> IntPow(base, exp)]
      [] Abs(base) >= 2 /\ (exp < 0 \/ exp >= 64) /\ checks ->
            [ok |-> FALSE, v |-> 0]
      [] Abs(base) >= 2 /\ (exp < 0 \/ exp >= 64) /\ ~checks /\ base % 2 = 0 ->
            [ok |-> TRUE, v |-> 0]

Identity(operator) == IF operator = "Add" THEN 0 ELSE 1

\* The closure of the filter, run on every literal operand in order.
RECURSIVE FoldNums(_, _, _, _)
FoldNums(operator, operands, result, checks) ==
    IF operands = <<>> \/ ~result.ok THEN result
    ELSE LET h == Head(operands)
             next == IF ~IsNum(h) THEN result
                     ELSE CASE operator = "Add" ->
                                  [ok |-> TRUE, v |-> result.v + h.num]
                            [] operator = "Mul" ->
                                  [ok |-> TRUE, v |-> result.v * h.num]
                            [] operator = "Pow" ->
                                  PowI64(h.num, result.v, checks)
         IN  FoldNums(operator, Tail(operands), next, checks)

NotNum(a) == ~IsNum(a)

BinaryNumOps(a, checks) ==
    IF IsBinary(a)
    THEN LET init == Identity(a.tag)
             r == FoldNums(a.tag, a.kids, [ok |-> TRUE, v |-> init], checks)
         IN  IF ~r.ok THEN Panic("attempt to multiply with overflow")
             ELSE Into(a.tag,
                       SelectSeq(a.kids, NotNum)
                           \o (IF r.v # init THEN <<Num(r.v)>> ELSE <<>>))
    ELSE a


-----------------------------------------------------------------------------
(* combine_terms                                                           *)

\* terms.iter().enumerate().skip(i).filter_map(..): the positions from i on
\* whose term yields a coefficient for lf, ascending.  Positions are 1-based.
Matching(terms, i, lf) ==
    SelectSeq([k \in 1..(Len(terms) + 1 - i) |-> i + k - 1],
              LAMBDA j : TermFactorCoeff(terms[j], lf) # None)

SeqRange(s) == {s[k] : k \in 1..Len(s)}

\* The loop over the factors of a Mul term at position i, from factor k on.
\* A factor whose scan found the term alone is discarded; the first other
\* factor is kept with the coefficients of every position its scan matched.
\* The loop without `if coeff.operands.len() == 1 { factor = None; .. }`: a
\* factor found in the term alone is kept.
RECURSIVE MulFactorKeepsLone(_, _, _, _, _)
MulFactorKeepsLone(terms, i, factors, k, skipped) ==
    IF k > Len(factors)
    THEN [found |-> FALSE, factor |-> None, coeff |-> <<>>,
          from |-> <<>>, skipped |-> skipped]
    ELSE LET ms == Matching(terms, i, factors[k])
             sk == skipped \cup SeqRange(ms)
         IN  IF Len(ms) < 1
             THEN MulFactorKeepsLone(terms, i, factors, k + 1, sk)
             ELSE [found |-> TRUE, factor |-> factors[k],
                   coeff |-> [n \in 1..Len(ms) |->
                                 TermFactorCoeff(terms[ms[n]], factors[k])],
                   from |-> ms, skipped |-> sk]

RECURSIVE MulFactor(_, _, _, _, _)
MulFactor(terms, i, factors, k, skipped) ==
    IF k > Len(factors)
    THEN [found |-> FALSE, factor |-> None, coeff |-> <<>>,
          from |-> <<>>, skipped |-> skipped]
    ELSE LET ms == Matching(terms, i, factors[k])
             sk == skipped \cup SeqRange(ms)
         IN  IF Len(ms) <= 1
             THEN MulFactor(terms, i, factors, k + 1, sk)
             ELSE [found |-> TRUE, factor |-> factors[k],
                   coeff |-> [n \in 1..Len(ms) |->
                                 TermFactorCoeff(terms[ms[n]], factors[k])],
                   from |-> ms, skipped |-> sk]

\* The other arm of the match: the term itself is the factor looked for.
BareFactor(terms, i, skipped) ==
    LET ms == Matching(terms, i, terms[i])
    IN  [found |-> ms # <<>>, factor |-> IF ms # <<>> THEN terms[i] ELSE None,
         coeff |-> [n \in 1..Len(ms) |->
                       TermFactorCoeff(terms[ms[n]], terms[i])],
         from |-> ms, skipped |-> skipped \cup SeqRange(ms)]

\* One iteration of `for (i, term) in terms.iter().enumerate()` and the rest
\* of the loop.  st.log records every iteration that was not skipped: its
\* position, the factor it settled on and the positions whose coefficients it
\* summed (not program state: read by the properties only).
RECURSIVE CombineLoop(_, _, _, _)
CombineLoop(terms, i, st, checks) ==
    IF i > Len(terms) \/ st.panic # "" THEN st
    ELSE IF i \in st.skipped THEN CombineLoop(terms, i + 1, st, checks)
    ELSE LET f == IF terms[i].tag = "Mul"
                  THEN MulFactor(terms, i, terms[i].kids, 1, st.skipped)
                  ELSE BareFactor(terms, i, st.skipped)
             coeff == BinaryNumOps(Into("Add", f.coeff), checks)
             emitted == IF ~f.found THEN <<>>
                        ELSE IF coeff = Num(1) THEN <<f.factor>>
                        ELSE <<Into("Mul", <<coeff, f.factor>>)>>
         IN  CombineLoop(terms, i + 1,
                 [new_terms |-> st.new_terms \o emitted,
                  skipped |-> f.skipped,
                  log |-> Append(st.log,
                              [at |-> i, found |-> f.found, factor |-> f.factor,
                               from |-> f.from, coeff |-> coeff]),
                  panic |-> IF IsPanic(coeff) THEN coeff.name ELSE ""],
                 checks)

CombineStart ==
    [new_terms |-> <<>>, skipped |-> {}, log |-> <<>>, panic |-> ""]

CombineTerms(a, checks) ==
    IF a.tag = "Add"
    THEN LET st == CombineLoop(a.kids, 1, CombineStart, checks)
         IN  IF st.panic # "" THEN Panic(st.panic)
             ELSE Into("Add", st.new_terms)
    ELSE a

-----------------------------------------------------------------------------
(* Bounded sets of input trees.                                            *)

MaxOperands == 3   \* operands of the enumerated top-level nodes
MaxNest == 34      \* nesting of the enumerated chains
MaxLits == 5       \* literals of the enumerated all-literal Pow nodes

\* Operand lists of up to n operands.  A Binary of one operand converts to
\* that operand, so no tree holds one.
SeqsUpTo(S, n) == UNION {[1..k -> S] : k \in (0..n) \ {1}}

x == Var("x")
y == Var("y")
z == Var("z")

\* Terms of the enumerated sums: bare symbols, literals, a unary node, a
\* Pow node, and products that share factors with the others or with none.
Terms ==
    {x, y, Num(1), Num(2), Unary(x),
     Binary("Mul", <<x, y>>), Binary("Mul", <<y, x>>),
     Binary("Mul", <<x, Num(2)>>), Binary("Mul", <<z, z>>),
     Binary("Mul", <<Binary("Mul", <<x, y>>), z>>),
     Binary("Pow", <<x, Num(2)>>)}

\* The terms of the sums that are swept whole.
RunTerms ==
    {x, y, Num(1), Binary("Mul", <<x, y>>), Binary("Mul", <<x, Num(2)>>),
     Binary("Mul", <<z, z>>)}

\* The sum of test_combine_terms: y * x * 2 + x + x * 2 + 3.
TestSum ==
    Binary("Add", <<Binary("Mul", <<y, x, Num(2)>>), x,
                    Binary("Mul", <<x, Num(2)>>), Num(3)>>)

SumInputs == {Binary("Add", s) : s \in SeqsUpTo(Terms, MaxOperands)}
                 \cup {TestSum}

RunSums == {Binary("Add", s) : s \in SeqsUpTo(RunTerms, MaxOperands)}
               \cup {TestSum}

\* Operands of the enumerated nodes of every operator: literals (negative,
\* the identities, 2), symbols, nodes of each operator (one nested twice in
\* its own operator), an empty node.
Operands ==
    {Num(0 - 1), Num(0), Num(1), Num(2), x, y,
     Binary("Add", <<x, Num(1)>>), Binary("Mul", <<x, Num(2)>>),
     Binary("Mul", <<Binary("Mul", <<x, y>>), Num(2)>>),
     Binary("Pow", <<x, y>>), Binary("Add", <<>>)}

\* The product of test_de_paren and the power of the folding example.
TestProduct ==
    Binary("Mul", <<Binary("Mul", <<Num(0), Num(1)>>),
                    Binary("Add", <<Var("a"), Var("b")>>), Num(3)>>)
TestPower == Binary("Pow", <<Num(2), Num(3)>>)

OpInputs ==
    {Binary(op, s) : op \in BinaryOp, s \in SeqsUpTo(Operands, MaxOperands)}
        \cup {TestProduct, TestPower}

\* Pow nodes of n literals 2.
PowInputs == {Binary("Pow", [k \in 1..n |-> Num(2)]) : n \in (0..MaxLits) \ {1}}

\* Factorials of the literals around both ends of the folded range, and of
\* operands that are not literals.
FacInputs ==
    {Unary(Num(n)) : n \in (0 - 2)..(FacLimit + 2)}
        \cup {Unary(x), Unary(Binary("Add", <<Num(1), Num(2)>>)),
              Unary(Unary(Num(3)))}

\* d nested nodes of one operator, each with the symbol x beside the nested
\* operand, around a leaf.
RECURSIVE Chain(_, _, _)
Chain(op, d, leaf) ==
    IF d = 0 THEN leaf ELSE Binary(op, <<x, Chain(op, d - 1, leaf)>>)

ChainLeaves ==
    {x, Num(2), Unary(Num(3)), Unary(Chain("Add", 3, y))}

ChainInputs ==
    {Chain(op, d, leaf) : op \in BinaryOp, d \in 0..MaxNest, leaf \in ChainLeaves}

UnitInputs == SumInputs \cup OpInputs \cup PowInputs \cup FacInputs
                  \cup {x, Num(1), Num(2)}

\* Factors looked for by the direct calls of term_factor_coeff.
Factors == {x, y, Num(2), Binary("Mul", <<x, y>>), Binary("Pow", <<x, y>>)}

RunInputs == RunSums \cup PowInputs \cup FacInputs \cup ChainInputs
                 \cup {TestProduct, TestPower}

-----------------------------------------------------------------------------
(* Simplifier::run.  Every activation of run_once is a frame of the stack: *)
(*   ast : its `mut ast`                                                   *)
(*   pc  : the statement it is at                                          *)
(*   out : while in recurse, the operands already simplified               *)
(* Its depth argument is the number of frames beneath it.                  *)

Frame(a) == [ast |-> a, pc |-> "run_once", out |-> <<>>]

top == stack[Len(stack)]
depth == Len(stack) - 1

Init ==
    /\ overflow_checks \in BOOLEAN
    /\ input \in RunInputs
    /\ looking_for = None
    /\ stack = <<Frame(input)>>
    /\ pc = "running"
    /\ ast = None
    /\ pass = 1
    /\ first = None

At(label) == pc = "running" /\ top.pc = label

\* A panic unwinds every activation.
Abort(p) ==
    /\ pc' = "panicked"
    /\ ast' = p
    /\ stack' = <<>>
    /\ UNCHANGED <<overflow_checks, input, looking_for, pass, first>>

\* ast = a; go on at the statement `to`.
Goto(a, to) ==
    /\ stack' = [stack EXCEPT ![Len(stack)] = [top EXCEPT !.ast = a, !.pc = to]]
    /\ UNCHANGED <<overflow_checks, input, looking_for, pc, ast, pass, first>>

Step(a, to) == IF IsPanic(a) THEN Abort(a) ELSE Goto(a, to)

\* if depth >= 32 { panic!("Recursion depth limit") }
Enter ==
    /\ At("run_once")
    /\ Step(IF depth >= DepthLimit THEN Panic("Recursion depth limit") ELSE top.ast,
            "recurse")

\* recurse: the next operand of a Binary is simplified at depth + 1.
RecurseCall ==
    /\ At("recurse")
    /\ IsBinary(top.ast)
    /\ Len(top.out) < Len(top.ast.kids)
    /\ stack' = Append(stack, Frame(top.ast.kids[Len(top.out) + 1]))
    /\ UNCHANGED <<overflow_checks, input, looking_for, pc, ast, pass, first>>

\* recurse: the node is rebuilt from the simplified operands; any other node
\* is left as it is.
RecurseCollect ==
    /\ At("recurse")
    /\ ~IsBinary(top.ast) \/ Len(top.out) = Len(top.ast.kids)
    /\ Goto(IF IsBinary(top.ast) THEN Into(top.ast.tag, top.out) ELSE top.ast,
            "de_paren")

DoDeParen == At("de_paren") /\ Step(DeParen(top.ast), "combine_terms")

DoCombineTerms ==
    /\ At("combine_terms")
    /\ Step(CombineTerms(top.ast, overflow_checks), "unary_num_ops")

DoUnaryNumOps == At("unary_num_ops") /\ Step(UnaryNumOps(top.ast), "binary_num_ops")

DoBinaryNumOps ==
    /\ At("binary_num_ops")
    /\ Step(BinaryNumOps(top.ast, overflow_checks), "return")

\* run_once returns to the recurse of its caller.
ReturnToCaller ==
    /\ At("return")
    /\ Len(stack) > 1
    /\ LET caller == stack[Len(stack) - 1]
       IN  stack' = Append(SubSeq(stack, 1, Len(stack) - 2),
                           [caller EXCEPT !.out = Append(@, top.ast)])
    /\ UNCHANGED <<overflow_checks, input, looking_for, pc, ast, pass, first>>

\* The outermost run_once returns to the caller of Simplifier::run.
ReturnResult ==
    /\ At("return")
    /\ Len(stack) = 1
    /\ stack' = <<>>
    /\ pc' = "done"
    /\ ast' = top.ast
    /\ UNCHANGED <<overflow_checks, input, looking_for, pass, first>>

\* The caller hands the result of the first sweep to Simplifier::run again.
Resweep ==
    /\ pc = "done"
    /\ pass = 1
    /\ first' = ast
    /\ pass' = 2
    /\ pc' = "running"
    /\ stack' = <<Frame(ast)>>
    /\ ast' = None
    /\ UNCHANGED <<overflow_checks, input, looking_for>>

Next ==
    \/ Enter
    \/ RecurseCall
    \/ RecurseCollect
    \/ DoDeParen
    \/ DoCombineTerms
    \/ DoUnaryNumOps
    \/ DoBinaryNumOps
    \/ ReturnToCaller
    \/ ReturnResult
    \/ Resweep

Spec == Init /\ [][Next]_vars

-----------------------------------------------------------------------------
(* Each pass called on its own, as the unit tests call them.               *)

UnitInit ==
    /\ overflow_checks \in BOOLEAN
    /\ input \in UnitInputs
    /\ looking_for = None
    /\ stack = <<>>
    /\ pc = "call"
    /\ ast = input
    /\ pass = 1
    /\ first = None

Call(name, a, lf) ==
    /\ pc = "call"
    /\ pc' = name
    /\ ast' = a
    /\ looking_for' = lf
    /\ UNCHANGED <<overflow_checks, input, stack, pass, first>>

CallDeParen == Call("de_paren", DeParen(input), None)

CallCombineTerms ==
    Call("combine_terms", CombineTerms(input, overflow_checks), None)

CallTermFactorCoeff ==
    \E lf \in Factors : Call("term_factor_coeff", TermFactorCoeff(input, lf), lf)

CallUnaryNumOps == Call("unary_num_ops", UnaryNumOps(input), None)

CallBinaryNumOps ==
    Call("binary_num_ops", BinaryNumOps(input, overflow_checks), None)

UnitNext ==
    \/ CallDeParen
    \/ CallCombineTerms
    \/ CallTermFactorCoeff
    \/ CallUnaryNumOps
    \/ CallBinaryNumOps

UnitSpec == UnitInit /\ [][UnitNext]_vars


-----------------------------------------------------------------------------
(* Properties of the passes called alone (UnitSpec).                       *)

\* What one operand contributes to a flattened operand list.
Pieces(op, kid) == IF IsBinary(kid) /\ kid.tag = op THEN kid.kids ELSE <<kid>>

\* The number of operands the operands before the k-th contribute.
RECURSIVE Offset(_, _, _)
Offset(op, kids, k) ==
    IF k = 1 THEN 0
    ELSE Offset(op, kids, k - 1) + Len(Pieces(op, kids[k - 1]))

\* r is the in-order concatenation of what each operand contributes.
IsSplice(r, op, kids) ==
    /\ Len(r) = Offset(op, kids, Len(kids) + 1)
    /\ \A k \in 1..Len(kids) : \A m \in 1..Len(Pieces(op, kids[k])) :
           r[Offset(op, kids, k) + m] = Pieces(op, kids[k])[m]

\* C9 as stated: de_paren of a Binary returns a Binary with the same operator
\* whose operands are, in order, the operands of every same-operator operand
\* and every other operand itself; any other node is returned unchanged.
C9_AlwaysBinary ==
    pc = "de_paren" =>
        IF IsBinary(input)
        THEN ast.tag = input.tag /\ IsSplice(ast.kids, input.tag, input.kids)
        ELSE ast = input

\* C9 amended: the result is that Binary unless the flattened operand list
\* holds exactly one operand, and then it is that operand.
C9_DeParenOneLevel ==
    pc = "de_paren" =>
        IF ~IsBinary(input) THEN ast = input
        ELSE IF Offset(input.tag, input.kids, Len(input.kids) + 1) = 1
        THEN IsSplice(<<ast>>, input.tag, input.kids)
        ELSE /\ ast.tag = input.tag
             /\ IsSplice(ast.kids, input.tag, input.kids)

\* C9 witness: the product of test_de_paren, flattened.
C9_Witness ==
    /\ pc = "de_paren"
    /\ input = TestProduct
    /\ ast = Binary("Mul", <<Num(0), Num(1),
                              Binary("Add", <<Var("a"), Var("b")>>), Num(3)>>)

Occurs(kids, f) == \E j \in 1..Len(kids) : kids[j] = f

FirstAt(kids, f) ==
    CHOOSE j \in 1..Len(kids) : kids[j] = f /\ \A n \in 1..(j - 1) : kids[n] # f

Without(kids, j) ==
    [k \in 1..(Len(kids) - 1) |-> IF k < j THEN kids[k] ELSE kids[k + 1]]

\* C10 as stated: on a Binary term the call succeeds iff an operand equals the
\* factor, and returns the term's operator applied to the operands without the
\* first such operand; on any other term it returns 1 iff the term equals the
\* factor; the unreachable!() arm is never taken.
C10_OperatorKept ==
    pc = "term_factor_coeff" =>
        /\ ast # Panic("unreachable")
        /\ IF IsBinary(input)
           THEN IF Occurs(input.kids, looking_for)
                THEN ast = Binary(input.tag,
                                  Without(input.kids,
                                          FirstAt(input.kids, looking_for)))
                ELSE ast = None
           ELSE ast = (IF input = looking_for THEN Num(1) ELSE None)

\* C10 amended: when exactly one operand remains, the coefficient is that
\* operand itself.
C10_TermFactorCoeff ==
    pc = "term_factor_coeff" =>
        /\ ast # Panic("unreachable")
        /\ IF IsBinary(input)
           THEN IF Occurs(input.kids, looking_for)
                THEN LET rest == Without(input.kids,
                                         FirstAt(input.kids, looking_for))
                     IN  IF Len(rest) = 1 THEN ast = rest[1]
                         ELSE ast.tag = input.tag /\ ast.kids = rest
                ELSE ast = None
           ELSE ast = (IF input = looking_for THEN Num(1) ELSE None)

\* C10 witness: the factor occurs twice in a product; the later occurrence
\* stays in the coefficient.
C10_Witness ==
    /\ pc = "term_factor_coeff"
    /\ input = Binary("Mul", <<y, x, x>>)
    /\ looking_for = x
    /\ ast = Binary("Mul", <<y, x>>)


\* The iterations combine_terms ran on the operands of the sum called.
Log == CombineLoop(input.kids, 1, CombineStart, overflow_checks).log

CombinedSum == pc = "combine_terms" /\ input.tag = "Add"

\* No term of the sum is itself a sum, as after de_paren.
FlatSum == \A k \in 1..Len(input.kids) : input.kids[k].tag # "Add"

\* C2 as stated: a term that is not a Mul and is not consumed when its
\* position is reached matches itself, so the iteration at its position emits
\* a term with the term as factor and its own coefficient 1 in the sum.
C2_BareTermRetained ==
    (CombinedSum /\ FlatSum) =>
        \A n \in 1..Len(Log) :
            input.kids[Log[n].at].tag # "Mul" =>
                /\ Log[n].found
                /\ Log[n].factor = input.kids[Log[n].at]
                /\ \E m \in 1..Len(Log[n].from) : Log[n].from[m] = Log[n].at

\* The k-th term is a Mul none of whose operands is an operand of another
\* operator term or equal to another term that is not a Mul.
Orphan(terms, k) ==
    /\ terms[k].tag = "Mul"
    /\ \A c \in SeqRange(terms[k].kids) : \A j \in (1..Len(terms)) \ {k} :
           /\ ~(IsBinary(terms[j]) /\ c \in SeqRange(terms[j].kids))
           /\ ~(terms[j].tag # "Mul" /\ terms[j] = c)

\* C3: an orphan Mul term of a sum is dropped: its iteration settles on no
\* factor, no emitted coefficient sums a coefficient of it, and the result is
\* the result for the sum without it.
C3_OrphanDropped ==
    CombinedSum =>
        \A k \in 1..Len(input.kids) :
            Orphan(input.kids, k) =>
                /\ \A n \in 1..Len(Log) :
                       /\ Log[n].at = k => ~Log[n].found
                       /\ Log[n].found => k \notin SeqRange(Log[n].from)
                /\ ast = CombineTerms(Binary("Add", Without(input.kids, k)),
                                      overflow_checks)

\* C3 witness: z * z is an orphan beside x and x * y, which combine.
C3_Witness ==
    /\ CombinedSum
    /\ input.kids = <<x, Binary("Mul", <<z, z>>), Binary("Mul", <<x, y>>)>>
    /\ Orphan(input.kids, 2)
    /\ ast = Binary("Mul", <<Binary("Add", <<y, Num(1)>>), x>>)

\* C8 as stated, on the flattened sums run_once hands to combine_terms: a
\* consumed position starts no iteration and is matched by no later scan, so
\* no two emitted terms sum a coefficient of the same position;
\* test_combine_terms gives the expected sum.
C8_ConsumedOnce ==
    (CombinedSum /\ FlatSum) =>
        /\ \A n \in 1..Len(Log) : \A m \in 1..(n - 1) :
               Log[m].found =>
                   /\ Log[n].at \notin SeqRange(Log[m].from)
                   /\ Log[n].found =>
                          SeqRange(Log[n].from) \cap SeqRange(Log[m].from) = {}
        /\ input = TestSum =>
               ast = Binary("Add",
                        <<Binary("Mul",
                             <<Binary("Add", <<Binary("Mul", <<y, Num(2)>>),
                                               Num(3)>>), x>>),
                          Num(3)>>)

\* n! for the n of the folded range.
Factorial(n) ==
    <<1, 1, 2, 6, 24, 120, 720, 5040, 40320, 362880, 3628800>>[n + 1]

\* C6 as stated: a Fac of a literal n is replaced by n! exactly when
\* 0 <= n <= 10; every other node is returned unchanged.
C6_FactorialRange ==
    pc = "unary_num_ops" =>
        IF /\ input.tag = "Fac"
           /\ IsNum(input.kids[1])
           /\ input.kids[1].num >= 0
           /\ input.kids[1].num <= 10
        THEN ast = Num(Factorial(input.kids[1].num))
        ELSE ast = input

\* The fold of C5 over unbounded integers: def is "ok" with the value, "big"
\* when the value has more than 64 bits, "undef" when it is no integer.
MathPow(v, e) ==
    CASE v = 0 /\ e >= 0 -> [def |-> "ok", v |-> IF e = 0 THEN 1 ELSE 0]
      [] v = 0 /\ e < 0 -> [def |-> "undef", v |-> 0]
      [] v = 1 -> [def |-> "ok", v |-> 1]
      [] v = 0 - 1 -> [def |-> "ok", v |-> IF e % 2 = 0 THEN 1 ELSE 0 - 1]
      [] Abs(v) >= 2 /\ e < 0 -> [def |-> "undef", v |-> 0]
      [] Abs(v) >= 2 /\ e >= 0 /\ FitsModel(Abs(v), e, 1) ->
            [def |-> "ok", v |-> IntPow(v, e)]
      [] Abs(v) >= 2 /\ e >= 64 -> [def |-> "big", v |-> 0]

RECURSIVE MathFold(_, _, _)
MathFold(op, kids, acc) ==
    IF kids = <<>> \/ acc.def # "ok" THEN acc
    ELSE LET h == Head(kids)
             next == IF ~IsNum(h) THEN acc
                     ELSE CASE op = "Add" -> [def |-> "ok", v |-> acc.v + h.num]
                            [] op = "Mul" -> [def |-> "ok", v |-> acc.v * h.num]
                            [] op = "Pow" -> MathPow(h.num, acc.v)
         IN  MathFold(op, Tail(kids), next)

\* C5 as stated, read up to the conversion of a one-operand Binary: the call
\* returns the operator applied to the operands that are not literals, in
\* order, followed by the fold of the literals unless it is the identity.
C5_FoldOfLiterals ==
    (pc = "binary_num_ops" /\ IsBinary(input)) =>
        LET fold == MathFold(input.tag, input.kids,
                             [def |-> "ok", v |-> Identity(input.tag)])
            rest == SelectSeq(input.kids, NotNum)
                        \o (IF fold.v # Identity(input.tag)
                            THEN <<Num(fold.v)>> ELSE <<>>)
        IN  /\ ~IsPanic(ast)
            /\ fold.def # "big"
            /\ fold.def = "ok" =>
                   IF Len(rest) = 1 THEN ast = rest[1]
                   ELSE ast = Binary(input.tag, rest)


-----------------------------------------------------------------------------
(* Properties of Simplifier::run (Spec).                                   *)

Max(S) == CHOOSE m \in S : \A n \in S : n <= m

\* The largest number of Binary ancestors of a node of a, counted from d; the
\* operand of a unary node is not looked into.
RECURSIVE Nesting(_, _)
Nesting(a, d) ==
    IF IsBinary(a) /\ a.kids # <<>>
    THEN Max({Nesting(a.kids[k], d + 1) : k \in 1..Len(a.kids)})
    ELSE d

Returned == pass = 1 /\ pc = "done"
Faulted == pass = 1 /\ pc = "panicked"

\* The part of C4 about the depth ceiling alone: the recursion-depth panic is
\* raised only for a tree with a node under 32 or more Binary ancestors, and
\* no such tree is swept to the end.
DepthFaultOnlyWhenDeep ==
    /\ (Faulted /\ ast = Panic("Recursion depth limit")) =>
           Nesting(input, 0) >= 32
    /\ Returned => Nesting(input, 0) < 32

\* C4 as stated: the sweep ends in the recursion-depth panic exactly for the
\* trees with a node under 32 or more Binary ancestors, and returns a tree,
\* raising no error, for every other tree.
C4_OnlyDepthFault ==
    /\ Faulted => (ast = Panic("Recursion depth limit") /\ Nesting(input, 0) >= 32)
    /\ Returned => (Nesting(input, 0) < 32 /\ ~IsPanic(ast))

\* Trees of Num, Var, Add and Mul nodes only.
RECURSIVE Arithmetic(_)
Arithmetic(a) ==
    \/ a.tag \in {"Num", "Var"}
    \/ /\ a.tag \in {"Add", "Mul"}
       /\ \A k \in 1..Len(a.kids) : Arithmetic(a.kids[k])

\* The k-th term shares a factor with another term of the sum.
Shares(terms, k) ==
    \E c \in SeqRange(terms[k].kids) : \E j \in (1..Len(terms)) \ {k} :
        \/ terms[j].tag = "Mul" /\ c \in SeqRange(terms[j].kids)
        \/ terms[j].tag # "Mul" /\ terms[j] = c

\* Every Mul term of every Add of a shares a factor with another term of it.
RECURSIVE NoOrphan(_)
NoOrphan(a) ==
    /\ \A k \in 1..Len(a.kids) : NoOrphan(a.kids[k])
    /\ a.tag = "Add" =>
           \A k \in 1..Len(a.kids) :
               a.kids[k].tag = "Mul" => Shares(a.kids, k)

RECURSIVE SumOf(_)
SumOf(vs) == IF vs = <<>> THEN 0 ELSE Head(vs) + SumOf(Tail(vs))

RECURSIVE ProductOf(_)
ProductOf(vs) == IF vs = <<>> THEN 1 ELSE Head(vs) * ProductOf(Tail(vs))

\* The integer an arithmetic tree denotes: Add is the sum and Mul the product
\* of the operands.
RECURSIVE Value(_, _)
Value(a, env) ==
    CASE a.tag = "Num" -> a.num
      [] a.tag = "Var" -> env[a.name]
      [] a.tag = "Add" -> SumOf([k \in 1..Len(a.kids) |-> Value(a.kids[k], env)])
      [] a.tag = "Mul" -> ProductOf([k \in 1..Len(a.kids) |-> Value(a.kids[k], env)])

Envs == [{"x", "y", "z", "a", "b"} -> {0 - 1, 0, 1}]

\* C1 as stated: for an arithmetic tree within the depth ceiling whose Mul terms
\* all share a factor with another term, the sweep returns a tree with the
\* same value under every assignment.
C1_ValuePreserved ==
    (pass = 1 /\ pc \in {"done", "panicked"}
        /\ Arithmetic(input) /\ NoOrphan(input) /\ Nesting(input, 0) < 32) =>
            /\ pc = "done"
            /\ \A env \in Envs : Value(ast, env) = Value(input, env)

\* C7 as stated: the second sweep returns the tree the first sweep returned.
C7_SecondSweepChangesNothing ==
    (pass = 2 /\ pc \in {"done", "panicked"}) => ast = first

=============================================================================
